---- MODULE Spec2Model ----
(***************************************************************************)
(* The annotation session of src/src/App.jsx: the App component's state    *)
(* (page map, undo/redo stacks, drawing flag, tool, pagination) and its    *)
(* event handlers, one action per delivered event.                         *)
(*                                                                         *)
(* Strokes and shapes are JavaScript objects.  The handlers copy ARRAYS    *)
(* ([...lines]) but never the objects in them, and handleMouseMove writes  *)
(* into the last object in place, so one object can be reachable from a    *)
(* page and from several snapshots at once.  The model therefore keeps a   *)
(* heap (object id -> fields); pages and snapshots hold sequences of ids.  *)
(* Arrays themselves are never shared: every snapshot is a fresh copy and  *)
(* a popped snapshot's arrays are handed to exactly one page.              *)
(***************************************************************************)
EXTENDS Integers, Sequences, FiniteSets, TLC

(* ------------------------------ bounds -------------------------------- *)
\* live stroke/shape objects (reachable from a page or a snapshot)
MaxElems == 2
\* pointer positions recorded in one stroke
MaxPoints == 2
\* highest page number navigated to or reported by a document
MaxPage == 2
\* pointer coordinates range over 0..MaxCoord
MaxCoord == 1
\* events delivered in one behaviour
MaxEvents == 5

(* ----------------------------- constants ------------------------------ *)
\* useState(2): setThickness is never called
thickness == 2

Tools == {"SCRIBBLE", "ARROW", "RECTANGLE", "CIRCLE"}

\* stage.getPointerPosition(): positions with x # y somewhere, so that a
\* handler confusing the two coordinates shows
Pos == {[x |-> c, y |-> MaxCoord - c] : c \in 0 .. MaxCoord}
\* getStage() or getPointerPosition() returned null
NoPos == [x |-> -1, y |-> -1]

\* e.target.files[0] when the picker delivers nothing, and the initial pdfFile
NoFile == "null"
Files == {"a.pdf"}

PageNums == 1 .. MaxPage

\* { lines: [], shapes: [], actions: [] }; actions is never read or written
\* again and is left out
EmptyPageData == [lines |-> <<>>, shapes |-> <<>>]
\* { lines: [], shapes: [] }
EmptySnapshot == [lines |-> <<>>, shapes |-> <<>>]

(* ------------------------------- state -------------------------------- *)
VARIABLES
    pages,        \* page number -> [lines, shapes], sequences of object ids
    heap,         \* object id -> the stroke's or shape's fields
    undoStack,    \* sequence of snapshots [lines, shapes] (ids)
    redoStack,
    isDrawing,
    currentPage,
    numPages,
    pdfFile,
    selectedTool,
    loadPending,  \* <Document> is loading pdfFile and has not called back yet
    crashed,      \* a state updater threw during render: React unmounted App
    batchedUpdates, \* the build's React root batches state updates
    lastOp,       \* history: the handler that ran last and the path it took
    prev,         \* history: the component state before that handler
    steps,        \* history: events delivered so far
    inProgress,   \* history: the object the latest pointer-down appended, 0 once
                  \*          the pointer is up
    drawnOn,      \* history: object id -> the page that was current at its pointer-down
    onlyDraws,    \* history: so far only whole draws (down, moves, up), with tool
                  \*          selection and navigation between them
    completedDraws \* history: page -> draws completed on it while onlyDraws

vars == <<pages, heap, undoStack, redoStack, isDrawing, currentPage, numPages,
          pdfFile, selectedTool, loadPending, crashed, batchedUpdates, lastOp,
          prev, steps, inProgress, drawnOn, onlyDraws, completedDraws>>

\* the component state as one record; handlers are functions on it
State ==
    [pages |-> pages, heap |-> heap, undoStack |-> undoStack,
     redoStack |-> redoStack, isDrawing |-> isDrawing,
     currentPage |-> currentPage, numPages |-> numPages, pdfFile |-> pdfFile,
     selectedTool |-> selectedTool, loadPending |-> loadPending,
     crashed |-> crashed]

(* ------------------------------ helpers ------------------------------- *)
Put(f, k, v) == [x \in (DOMAIN f) \cup {k} |-> IF x = k THEN v ELSE f[x]]

Range(q) == {q[i] : i \in 1 .. Len(q)}

Last(q) == q[Len(q)]

Front(q) == SubSeq(q, 1, Len(q) - 1)

\* pages[currentPage]?.lines || [], pages[currentPage]?.shapes || []
PageOrEmpty(s) ==
    IF s.currentPage \in DOMAIN s.pages THEN s.pages[s.currentPage]
    ELSE EmptyPageData

\* object ids reachable from a page or a snapshot
SnapIds(q) == UNION {Range(q[i].lines) \cup Range(q[i].shapes) : i \in 1 .. Len(q)}

Live(s) ==
    UNION {Range(s.pages[p].lines) \cup Range(s.pages[p].shapes) : p \in DOMAIN s.pages}
        \cup SnapIds(s.undoStack) \cup SnapIds(s.redoStack)

\* unreachable objects are garbage: drop them from the heap
Collect(s) == [s EXCEPT !.heap = [i \in Live(s) |-> s.heap[i]]]

\* the object a push of a new literal allocates: an id not in use
NewId(s) == CHOOSE i \in 1 .. MaxElems + 1 : i \notin DOMAIN s.heap
                /\ \A j \in 1 .. i - 1 : j \in DOMAIN s.heap

\* the fields of the objects a sequence of ids refers to
Deref(h, ids) == [i \in 1 .. Len(ids) |-> h[ids[i]]]

\* a page's (or snapshot's) strokes and shapes by value
Value(h, pg) == [lines |-> Deref(h, pg.lines), shapes |-> Deref(h, pg.shapes)]

PageValue(s, p) == Value(s.heap, s.pages[p])

(* ------------------------------ handlers ------------------------------ *)

\* { lines: [...page.lines], shapes: [...page.shapes] }: fresh arrays, the
\* same objects
Snapshot(pd) == [lines |-> pd.lines, shapes |-> pd.shapes]

\* (mutant) every shape is pushed as a rectangle
NewElementAlwaysRectangle(tool, pos) ==
    IF tool = "SCRIBBLE"
    THEN [points |-> <<pos.x, pos.y>>, thickness |-> thickness]
    ELSE [type |-> "RECTANGLE", x |-> pos.x, y |-> pos.y, width |-> 0, height |-> 0,
          thickness |-> thickness]

\* the literal handleMouseDown pushes
NewElement(tool, pos) ==
    IF tool = "SCRIBBLE"
    THEN [points |-> <<pos.x, pos.y>>, thickness |-> thickness]
    ELSE [type |-> tool, x |-> pos.x, y |-> pos.y, width |-> 0, height |-> 0,
          thickness |-> thickness]

\* (mutant) the page is rebuilt around the new object instead of extended
PushElementReplacing(pd, tool, id) ==
    IF tool = "SCRIBBLE"
    THEN [pd EXCEPT !.lines = <<id>>]
    ELSE [pd EXCEPT !.shapes = <<id>>]

\* currentPageData.lines.push(...) or currentPageData.shapes.push(...)
PushElement(pd, tool, id) ==
    IF tool = "SCRIBBLE"
    THEN [pd EXCEPT !.lines = Append(@, id)]
    ELSE [pd EXCEPT !.shapes = Append(@, id)]

\* (mutant) the redo stack survives the start of a draw
RedoStackKept(s) == s.redoStack

\* setRedoStack([])
RedoStackAfterDraw(s) == <<>>

\* handleMouseDown.  Its two functional updaters are not pure: the pages
\* updater pushes into the array held by the current state, and the undo
\* updater reads that same array through the render's `pages`.  React runs
\* updaters either as they are queued (unbatched updates: the undo updater
\* first, in statement order) or during the next render in hook order (batched
\* updates, the default of createRoot: pages, declared at line 32, before
\* undoStack, declared at line 35).  `batched` chooses between the two.
\* Each updater is run once per update, as a production build does.
handleMouseDown(s, pos, batched) ==
    IF pos = NoPos THEN s
    ELSE
    LET had == s.currentPage \in DOMAIN s.pages
        old == IF had THEN s.pages[s.currentPage] ELSE EmptyPageData
        id == NewId(s)
        new == PushElement(old, s.selectedTool, id)
        \* what pages[currentPage] shows when the undo updater runs
        seen == IF had THEN (IF batched THEN new ELSE old) ELSE EmptySnapshot
    IN  [s EXCEPT !.isDrawing = TRUE,
                  !.undoStack = Append(@, Snapshot(seen)),
                  !.pages = Put(@, s.currentPage, new),
                  !.heap = Put(@, id, NewElement(s.selectedTool, pos)),
                  !.redoStack = RedoStackAfterDraw(s)]

\* the pages updater of handleMouseMove throws a TypeError when the page or
\* its last stroke/shape is undefined
MoveThrows(s) ==
    \/ s.currentPage \notin DOMAIN s.pages
    \/ s.selectedTool = "SCRIBBLE" /\ s.pages[s.currentPage].lines = <<>>
    \/ s.selectedTool # "SCRIBBLE" /\ s.pages[s.currentPage].shapes = <<>>

\* (mutant) width is taken from the y distance and height from the x distance
handleMouseMoveSwapsExtent(s, point) ==
    IF ~s.isDrawing \/ point = NoPos THEN s
    ELSE IF MoveThrows(s) THEN [s EXCEPT !.crashed = TRUE]
    ELSE
    LET pg == s.pages[s.currentPage] IN
    IF s.selectedTool = "SCRIBBLE"
    THEN LET lastLine == Last(pg.lines) IN
         [s EXCEPT !.heap[lastLine].points = @ \o <<point.x, point.y>>]
    ELSE LET lastShape == Last(pg.shapes) IN
         [s EXCEPT !.heap[lastShape].width = point.y - s.heap[lastShape].y,
                   !.heap[lastShape].height = point.x - s.heap[lastShape].x]

handleMouseMove(s, point) ==
    IF ~s.isDrawing \/ point = NoPos THEN s
    ELSE IF MoveThrows(s) THEN [s EXCEPT !.crashed = TRUE]
    ELSE
    LET pg == s.pages[s.currentPage] IN
    IF s.selectedTool = "SCRIBBLE"
    THEN LET lastLine == Last(pg.lines) IN
         [s EXCEPT !.heap[lastLine].points = @ \o <<point.x, point.y>>]
    ELSE LET lastShape == Last(pg.shapes) IN
         [s EXCEPT !.heap[lastShape].width = point.x - s.heap[lastShape].x,
                   !.heap[lastShape].height = point.y - s.heap[lastShape].y]

\* (mutant) the end of a draw also empties the redo stack
handleMouseUpDropsRedo(s) == [s EXCEPT !.isDrawing = FALSE, !.redoStack = <<>>]

handleMouseUp(s) == [s EXCEPT !.isDrawing = FALSE]

\* (mutant) the popped snapshot, not the current page, goes onto the redo stack
undoActionPushesPopped(s) ==
    IF Len(s.undoStack) = 0 THEN s
    ELSE
    LET lastState == Last(s.undoStack) IN
    [s EXCEPT !.undoStack = Front(@),
              !.redoStack = Append(@, Snapshot(lastState)),
              !.pages = Put(@, s.currentPage,
                            [lines |-> lastState.lines, shapes |-> lastState.shapes])]

\* (mutant) no length check: on an empty stack pop() gives undefined and the
\* pages updater throws reading lastState.lines
undoActionUnguarded(s) ==
    IF Len(s.undoStack) = 0 THEN [s EXCEPT !.crashed = TRUE]
    ELSE
    LET lastState == Last(s.undoStack) IN
    [s EXCEPT !.undoStack = Front(@),
              !.redoStack = Append(@, Snapshot(PageOrEmpty(s))),
              !.pages = Put(@, s.currentPage,
                            [lines |-> lastState.lines, shapes |-> lastState.shapes])]

\* undoStack.pop() shortens the state array in place
undoAction(s) ==
    IF Len(s.undoStack) = 0 THEN s
    ELSE
    LET lastState == Last(s.undoStack) IN
    [s EXCEPT !.undoStack = Front(@),
              !.redoStack = Append(@, Snapshot(PageOrEmpty(s))),
              !.pages = Put(@, s.currentPage,
                            [lines |-> lastState.lines, shapes |-> lastState.shapes])]

\* (mutant) the current page is not saved on the undo stack
redoActionForgetsCurrent(s) ==
    IF Len(s.redoStack) = 0 THEN s
    ELSE
    LET lastState == Last(s.redoStack) IN
    [s EXCEPT !.redoStack = Front(@),
              !.pages = Put(@, s.currentPage,
                            [lines |-> lastState.lines, shapes |-> lastState.shapes])]

redoAction(s) ==
    IF Len(s.redoStack) = 0 THEN s
    ELSE
    LET lastState == Last(s.redoStack) IN
    [s EXCEPT !.redoStack = Front(@),
              !.undoStack = Append(@, Snapshot(PageOrEmpty(s))),
              !.pages = Put(@, s.currentPage,
                            [lines |-> lastState.lines, shapes |-> lastState.shapes])]

\* (mutant) the undo stack is left alone
resetCanvasKeepsUndo(s) ==
    [s EXCEPT !.pages = [p \in {1} |-> EmptyPageData],
              !.redoStack = <<>>,
              !.currentPage = 1]

resetCanvas(s) ==
    [s EXCEPT !.pages = [p \in {1} |-> EmptyPageData],
              !.undoStack = <<EmptySnapshot>>,
              !.redoStack = <<>>,
              !.currentPage = 1]

\* (mutant) the stacks are left alone
clearCanvasKeepsHistory(s) ==
    [s EXCEPT !.pages = Put(@, s.currentPage, EmptyPageData)]

\* (mutant) the page map is rebuilt as resetCanvas does
clearCanvasDropsPages(s) ==
    [s EXCEPT !.pages = [p \in {1, s.currentPage} |-> EmptyPageData],
              !.undoStack = <<EmptySnapshot>>,
              !.redoStack = <<>>]

clearCanvas(s) ==
    [s EXCEPT !.pages = Put(@, s.currentPage, EmptyPageData),
              !.undoStack = <<EmptySnapshot>>,
              !.redoStack = <<>>]

\* (mutant) no !pages[page] test: the page is created anew on every visit
navigatePageAlwaysCreates(s, page) ==
    [s EXCEPT !.pages = Put(@, page, EmptyPageData),
              !.currentPage = page]

navigatePage(s, page) ==
    [s EXCEPT !.pages = IF page \in DOMAIN @ THEN @ ELSE Put(@, page, EmptyPageData),
              !.currentPage = page]

\* (mutant) no `if (file)`: the session is reset whatever the picker delivers
handleFileChangeResetsOnEmpty(s, file) ==
    [resetCanvas(s) EXCEPT !.pdfFile = file, !.numPages = 0,
                           !.currentPage = 1, !.loadPending = (file # NoFile)]

handleFileChange(s, file) ==
    IF file # NoFile
    THEN [resetCanvas(s) EXCEPT !.pdfFile = file, !.numPages = 0,
                                !.currentPage = 1, !.loadPending = TRUE]
    ELSE s

onDocumentLoadSuccess(s, n) == [s EXCEPT !.numPages = n, !.loadPending = FALSE]

onDocumentLoadError(s) == [s EXCEPT !.loadPending = FALSE]

handleToolSelect(s, toolId) == [s EXCEPT !.selectedTool = toolId]

\* PaginationComponent
isFirstPage(s) == s.currentPage = 1

isLastPage(s) == IF s.numPages # 0 THEN s.currentPage = s.numPages ELSE FALSE

(* ------------------------------- render ------------------------------- *)
\* Math.abs
Abs(n) == IF n < 0 THEN 0 - n ELSE n

\* the props of the Konva node drawn for a shape (switch (shape.type)); the
\* stroke colour is the constant fillColor and is left out
RenderShape(shape) ==
    CASE shape.type = "CIRCLE" ->
           [node |-> "Circle", x |-> shape.x, y |-> shape.y,
            radius |-> Abs(shape.width), strokeWidth |-> shape.thickness]
      [] shape.type = "RECTANGLE" ->
           [node |-> "Rect", x |-> shape.x, y |-> shape.y,
            width |-> Abs(shape.width), height |-> Abs(shape.height),
            strokeWidth |-> shape.thickness]
      [] shape.type = "ARROW" ->
           [node |-> "Line",
            points |-> <<shape.x, shape.y, shape.x + shape.width,
                         shape.y + shape.height>>,
            strokeWidth |-> shape.thickness]
      [] OTHER -> [node |-> "null"]

(* ------------------------------- events ------------------------------- *)
\* the useState initial values
InitState ==
    [pages |-> [p \in {1} |-> EmptyPageData], heap |-> <<>>,
     undoStack |-> <<EmptySnapshot>>, redoStack |-> <<>>, isDrawing |-> FALSE,
     currentPage |-> 1, numPages |-> 0, pdfFile |-> NoFile,
     selectedTool |-> "SCRIBBLE", loadPending |-> FALSE, crashed |-> FALSE]

\* An error thrown while rendering, with no error boundary above App, makes
\* React unmount the whole tree: the component's state is gone and no handler
\* is attached any more.
Unmounted == [InitState EXCEPT !.crashed = TRUE]

Init ==
    /\ pages = InitState.pages
    /\ heap = InitState.heap
    /\ undoStack = InitState.undoStack
    /\ redoStack = InitState.redoStack
    /\ isDrawing = InitState.isDrawing
    /\ currentPage = InitState.currentPage
    /\ numPages = InitState.numPages
    /\ pdfFile = InitState.pdfFile
    /\ selectedTool = InitState.selectedTool
    /\ loadPending = InitState.loadPending
    /\ crashed = InitState.crashed
    /\ batchedUpdates \in BOOLEAN
    /\ lastOp = "init"
    /\ prev = InitState
    /\ steps = 0
    /\ inProgress = 0
    /\ drawnOn = <<>>
    /\ onlyDraws = TRUE
    /\ completedDraws = [p \in PageNums |-> 0]

\* the event leaves the history a sequence of whole draws: pointer-down only
\* with the pointer up, tool selection and navigation only between draws, no
\* undo, redo, clear or file selection
KeepsDrawSequence(op) ==
    \/ op \in {"mousemove", "mousemove/idle", "mouseup", "loadsuccess", "loaderror"}
    \/ op \in {"mousedown", "mousedown/nopos", "tool", "previous", "next"} /\ ~isDrawing

\* what the component holds once React has rendered the handler's updates
Rendered(r) == IF r.crashed THEN Unmounted ELSE Collect(r)

\* one delivered event: the handler runs on the mounted component and React
\* renders
Deliver(op, r) ==
    /\ ~crashed
    /\ steps < MaxEvents
    /\ LET t == Rendered(r) IN
       /\ pages' = t.pages
       /\ heap' = t.heap
       /\ undoStack' = t.undoStack
       /\ redoStack' = t.redoStack
       /\ isDrawing' = t.isDrawing
       /\ currentPage' = t.currentPage
       /\ numPages' = t.numPages
       /\ pdfFile' = t.pdfFile
       /\ selectedTool' = t.selectedTool
       /\ loadPending' = t.loadPending
       /\ crashed' = t.crashed
    /\ lastOp' = op
    /\ prev' = State
    /\ steps' = steps + 1
    /\ inProgress' = IF r.crashed THEN 0
                     ELSE IF op = "mousedown" THEN NewId(State)
                     ELSE IF op = "mouseup" THEN 0
                     ELSE inProgress
    /\ drawnOn' = [i \in DOMAIN heap' |->
                      IF i \in DOMAIN heap THEN drawnOn[i] ELSE currentPage]
    /\ onlyDraws' = (onlyDraws /\ KeepsDrawSequence(op))
    /\ completedDraws' =
           IF ~onlyDraws' THEN [p \in PageNums |-> 0]
           ELSE IF op = "mouseup" /\ isDrawing
           THEN [completedDraws EXCEPT ![drawnOn[inProgress]] = @ + 1]
           ELSE completedDraws
    /\ UNCHANGED batchedUpdates

\* Whether handleMouseDown's updaters run at the render, in hook order.  With
\* unbatched updates they never do.  With batched updates they do whenever
\* setIsDrawing(true) queues an update (isDrawing was false); when it does not
\* (isDrawing was already true) React may still run the first queued updater,
\* the undo updater, at once.
UpdaterOrders ==
    IF ~batchedUpdates THEN {FALSE}
    ELSE IF isDrawing THEN BOOLEAN ELSE {TRUE}

\* room for one more live object (bound on the heap)
CanDraw == Cardinality(DOMAIN heap) < MaxElems

\* <Stage onMouseDown>
MouseDown ==
    \E pos \in Pos \cup {NoPos}, batched \in UpdaterOrders :
        /\ pos # NoPos => CanDraw
        /\ Deliver(IF pos = NoPos THEN "mousedown/nopos" ELSE "mousedown",
                   handleMouseDown(State, pos, batched))

\* the in-progress stroke still has room for a point (bound on stroke length)
StrokeHasRoom ==
    (isDrawing /\ selectedTool = "SCRIBBLE" /\ ~MoveThrows(State))
        => Len(heap[Last(pages[currentPage].lines)].points) < 2 * MaxPoints

\* <Stage onMouseMove>
MouseMove ==
    \E point \in Pos \cup {NoPos} :
        /\ point # NoPos => StrokeHasRoom
        /\ Deliver(IF ~isDrawing \/ point = NoPos THEN "mousemove/idle"
                   ELSE IF MoveThrows(State) THEN "mousemove/throw"
                   ELSE "mousemove",
                   handleMouseMove(State, point))

\* <Stage onMouseUp>
MouseUp ==
    /\ ~crashed
    /\ Deliver("mouseup", handleMouseUp(State))

\* <button onClick={undo}>
UndoClick ==
    /\ ~crashed
    /\ Deliver(IF Len(undoStack) = 0 THEN "undo/empty" ELSE "undo", undoAction(State))

\* <button onClick={redo}>
RedoClick ==
    /\ ~crashed
    /\ Deliver(IF Len(redoStack) = 0 THEN "redo/empty" ELSE "redo", redoAction(State))

\* <button onClick={clearAll}>
ClearClick ==
    /\ ~crashed
    /\ Deliver("clear", clearCanvas(State))

\* the four tool buttons
ToolClick ==
    /\ ~crashed
    /\ \E toolId \in Tools : Deliver("tool", handleToolSelect(State, toolId))

\* Previous: onClick={() => !isFirstPage && navigatePage(currentPage - 1)}
PreviousClick ==
    /\ ~isFirstPage(State)
    /\ Deliver("previous", navigatePage(State, currentPage - 1))

\* Next: onClick={() => !isLastPage && navigatePage(currentPage + 1)}
NextClick ==
    /\ ~isLastPage(State)
    /\ currentPage + 1 <= MaxPage
    /\ Deliver("next", navigatePage(State, currentPage + 1))

\* <input type="file" onChange={handleFileChange}>
FileInputChange ==
    /\ ~crashed
    /\ \E file \in Files \cup {NoFile} :
        Deliver(IF file = NoFile THEN "file/none" ELSE "file",
                handleFileChange(State, file))

\* <Document onLoadSuccess>: the document reports its page count
LoadSuccess ==
    /\ loadPending
    /\ \E n \in 1 .. MaxPage : Deliver("loadsuccess", onDocumentLoadSuccess(State, n))

\* <Document onLoadError>
LoadError ==
    /\ loadPending
    /\ Deliver("loaderror", onDocumentLoadError(State))

Next ==
    \/ MouseDown
    \/ MouseMove
    \/ MouseUp
    \/ UndoClick
    \/ RedoClick
    \/ ClearClick
    \/ ToolClick
    \/ PreviousClick
    \/ NextClick
    \/ FileInputChange
    \/ LoadSuccess
    \/ LoadError

Spec == Init /\ [][Next]_vars

(* ------------------------------- claims ------------------------------- *)
\* the current page's strokes and shapes by value
CurValue(s) == PageValue(s, s.currentPage)

\* the object ids a page holds
PageIds(s, p) ==
    IF p \in DOMAIN s.pages
    THEN Range(s.pages[p].lines) \cup Range(s.pages[p].shapes) ELSE {}

Undone(s) == Rendered(undoAction(s))

Redone(s) == Rendered(redoAction(s))

\* C1 as stated: whenever undo() has just run (with or without effect), a
\* redo() run next leaves the current page's strokes and shapes equal to what
\* they were before the undo.
C1_UndoRedoAlways ==
    lastOp \in {"undo", "undo/empty"} => CurValue(Redone(State)) = CurValue(prev)

\* C1 amended: whenever undo() has just run on a non-empty undo stack, a
\* redo() run next leaves the current page's strokes and shapes equal to what
\* they were before the undo.
C1_UndoRedoRestores ==
    lastOp = "undo" => CurValue(Redone(State)) = CurValue(prev)

\* an undo has just changed the current page, so the redo has something to restore
C1_Witness ==
    /\ lastOp = "undo"
    /\ CurValue(State) # CurValue(prev)
    /\ CurValue(Redone(State)) = CurValue(prev)

\* the rest of a draw after its pointer-down (up to two moves, pointer-up),
\* then undo
MovesUpUndo(s, m1, m2) ==
    Undone(Rendered(handleMouseUp(
        Rendered(handleMouseMove(Rendered(handleMouseMove(s, m1)), m2)))))

\* C2: whenever a pointer-down has just begun a draw (the pointer was up
\* before), finishing the draw with any moves and a pointer-up and then
\* running undo() once leaves the page's strokes and shapes equal to what they
\* were before the pointer-down.
C2_UndoRestoresPreDraw ==
    (lastOp = "mousedown" /\ ~prev.isDrawing) =>
        \A m1, m2 \in Pos \cup {NoPos} :
            CurValue(MovesUpUndo(State, m1, m2)) = CurValue(prev)

\* C3: undo() on an empty undo stack and redo() on an empty redo stack leave
\* the whole component state (pages, current page, both stacks and the rest)
\* as it was.
C3_EmptyStackNoOp ==
    /\ (lastOp \in {"undo", "undo/empty"} /\ Len(prev.undoStack) = 0) => State = prev
    /\ (lastOp \in {"redo", "redo/empty"} /\ Len(prev.redoStack) = 0) => State = prev

\* undo() has just run on an empty undo stack while the redo stack held snapshots
C3_Witness ==
    /\ lastOp = "undo/empty"
    /\ Len(prev.undoStack) = 0
    /\ Len(redoStack) > 0

\* C4: whenever a pointer-down has just begun a stroke or shape, the redo
\* stack is empty and a redo() run next changes nothing.
C4_DrawClearsRedo ==
    lastOp = "mousedown" => (redoStack = <<>> /\ Redone(State) = State)

\* a draw has just begun in a state reached by undo (the redo stack held a snapshot)
C4_Witness ==
    /\ lastOp = "mousedown"
    /\ Len(prev.redoStack) > 0
    /\ redoStack = <<>>

\* C5: whenever undo() or redo() has just run, every stroke and shape on the
\* current page was drawn on that page.
C5_PerPageHistory ==
    lastOp \in {"undo", "redo"} =>
        \A id \in PageIds(State, currentPage) : drawnOn[id] = currentPage

\* C6: whenever a pointer-move has just been handled during a draw, the
\* component is still mounted and every stroke and shape other than the one the
\* pointer-down appended still exists with the value it had before the move.
C6_OnlyInProgressMutates ==
    lastOp \in {"mousemove", "mousemove/throw"} =>
        /\ ~crashed
        /\ \A id \in DOMAIN prev.heap :
              id # inProgress => (id \in DOMAIN heap /\ heap[id] = prev.heap[id])

\* strokes plus shapes stored on page p
Stored(p) ==
    IF p \in DOMAIN pages THEN Len(pages[p].lines) + Len(pages[p].shapes) ELSE 0

\* C7: as long as the history is a sequence of whole draws, every page stores
\* as many strokes and shapes as draws were completed on it, plus the one in
\* progress on the page where the pointer went down.
C7_CountEqualsDraws ==
    (onlyDraws /\ ~crashed) =>
        \A p \in PageNums :
            Stored(p) = completedDraws[p]
                + (IF isDrawing /\ inProgress # 0 /\ drawnOn[inProgress] = p THEN 1 ELSE 0)

\* draws have been completed on two pages
C7_Witness ==
    /\ onlyDraws
    /\ ~isDrawing
    /\ completedDraws[1] >= 1
    /\ completedDraws[2] >= 1
    /\ Stored(1) >= 1
    /\ Stored(2) >= 1

\* the states up to three undo()/redo() clicks lead to
UndoRedoRuns(s) ==
    LET one(S) == S \cup {Undone(x) : x \in S} \cup {Redone(x) : x \in S}
    IN  one(one(one({s})))

\* C8: whenever clearPage() has just run, the current page is empty, the undo
\* stack holds exactly one empty snapshot and the redo stack is empty, and no
\* run of undo()/redo() clicks puts on any page a stroke or shape that is not
\* on that page now.
C8_ClearResetsHistory ==
    lastOp = "clear" =>
        /\ pages[currentPage].lines = <<>>
        /\ pages[currentPage].shapes = <<>>
        /\ undoStack = <<EmptySnapshot>>
        /\ redoStack = <<>>
        /\ \A r \in UndoRedoRuns(State) :
              \A p \in DOMAIN r.pages : PageIds(r, p) \subseteq PageIds(State, p)

\* a clear has just emptied a page that had content and a history
C8_Witness ==
    /\ lastOp = "clear"
    /\ PageIds(prev, prev.currentPage) # {}
    /\ Len(prev.undoStack) + Len(prev.redoStack) >= 3

\* C9: whenever clearPage() has just run, the current page number is what it
\* was and every other page holds the strokes and shapes it held.
C9_ClearLeavesOtherPages ==
    lastOp = "clear" =>
        /\ currentPage = prev.currentPage
        /\ DOMAIN pages = DOMAIN prev.pages
        /\ \A p \in DOMAIN pages \ {currentPage} :
              /\ pages[p] = prev.pages[p]
              /\ PageValue(State, p) = PageValue(prev, p)

\* page 2 has just been cleared while page 1 holds strokes or shapes
C9_Witness ==
    /\ lastOp = "clear"
    /\ currentPage = 2
    /\ PageIds(prev, 2) # {}
    /\ PageIds(State, 1) # {}

\* C10: whenever navigatePage(n) has just run, the current page is n, page n
\* was created empty if it did not exist, every page that existed (n included)
\* holds the strokes and shapes it held, and both stacks are what they were.
C10_NavigateFrame ==
    lastOp \in {"previous", "next"} =>
        LET n == IF lastOp = "next" THEN prev.currentPage + 1 ELSE prev.currentPage - 1
        IN  /\ currentPage = n
            /\ DOMAIN pages = DOMAIN prev.pages \cup {n}
            /\ n \notin DOMAIN prev.pages => pages[n] = EmptyPageData
            /\ \A p \in DOMAIN prev.pages :
                  /\ pages[p] = prev.pages[p]
                  /\ PageValue(State, p) = PageValue(prev, p)
            /\ undoStack = prev.undoStack
            /\ redoStack = prev.redoStack

\* navigation has just returned to a page that holds strokes or shapes, with a
\* history on the stacks
C10_Witness ==
    /\ lastOp = "previous"
    /\ PageIds(State, currentPage) # {}
    /\ Len(undoStack) >= 2

\* the last shape of the current page
LastShape(s) == s.heap[Last(s.pages[s.currentPage].shapes)]

\* a pointer-down at pos and two pointer events after it (m1 possibly without
\* a position), with the pointer-down's updaters in either order
DownMoveMove(s, pos, batched, m1, m2) ==
    Rendered(handleMouseMove(
        Rendered(handleMouseMove(Rendered(handleMouseDown(s, pos, batched)), m1)),
        m2))

\* C11: in every reachable state with a shape tool selected, a pointer-down at
\* (x0,y0) followed by pointer-moves ending at (x1,y1) leaves as the last shape
\* of the page the one with x = x0, y = y0, width = x1 - x0, height = y1 - y0,
\* whatever the intermediate point, and a rectangle is drawn with the absolute
\* values of that width and height.
C11_ShapeExtent ==
    (~crashed /\ selectedTool # "SCRIBBLE") =>
        \A pos, m2 \in Pos, m1 \in Pos \cup {NoPos}, batched \in BOOLEAN :
            LET shape == LastShape(DownMoveMove(State, pos, batched, m1, m2))
            IN  /\ shape = [type |-> selectedTool, x |-> pos.x, y |-> pos.y,
                            width |-> m2.x - pos.x, height |-> m2.y - pos.y,
                            thickness |-> thickness]
                /\ selectedTool = "RECTANGLE" =>
                      /\ RenderShape(shape).width = Abs(m2.x - pos.x)
                      /\ RenderShape(shape).height = Abs(m2.y - pos.y)
                      /\ RenderShape(shape).width >= 0
                      /\ RenderShape(shape).height >= 0

\* a rectangle has just been dragged to the left of its origin: its recorded
\* width is negative and it is drawn with a positive width
C11_Witness ==
    /\ lastOp = "mousemove"
    /\ selectedTool = "RECTANGLE"
    /\ pages[currentPage].shapes # <<>>
    /\ LastShape(State).type = "RECTANGLE"
    /\ LastShape(State).width < 0
    /\ RenderShape(LastShape(State)).width > 0

\* C12: whenever a file-selection event that delivered no file, or a document
\* load error, has just been handled, the pages, the strokes and shapes, the
\* current page, both stacks, the page count, the loaded file, the selected
\* tool and the drawing flag are what they were, and the component is still
\* mounted with its handlers attached.
C12_FailureKeepsState ==
    lastOp \in {"file/none", "loaderror"} =>
        /\ pages = prev.pages
        /\ heap = prev.heap
        /\ currentPage = prev.currentPage
        /\ undoStack = prev.undoStack
        /\ redoStack = prev.redoStack
        /\ numPages = prev.numPages
        /\ pdfFile = prev.pdfFile
        /\ selectedTool = prev.selectedTool
        /\ isDrawing = prev.isDrawing
        /\ ~crashed

\* the picker has just delivered no file while a document is loaded and the
\* page holds a stroke or shape
C12_Witness ==
    /\ lastOp = "file/none"
    /\ pdfFile # NoFile
    /\ heap # <<>>
    /\ Len(undoStack) >= 2

\* C13: in every reachable state the current page is at least 1 and, whenever
\* the page count is known (numPages > 0), at most numPages.
C13_PaginationBounded ==
    /\ currentPage >= 1
    /\ numPages > 0 => currentPage <= numPages

\* what undo() or redo() must make of `before`, taking from stack `from`
\* (a field name) and giving to stack `to`, stated on the result `after`
MovesOneSnapshot(before, after, from, to) ==
    LET cur == before.currentPage IN
    /\ after[from] = Front(before[from])
    /\ after[to] = Append(before[to], Snapshot(before.pages[cur]))
    /\ Snapshot(after.pages[cur]) = Last(before[from])
    /\ after.currentPage = cur
    /\ DOMAIN after.pages = DOMAIN before.pages
    /\ \A p \in DOMAIN before.pages \ {cur} :
          /\ after.pages[p] = before.pages[p]
          /\ PageValue(after, p) = PageValue(before, p)
    \* the snapshots and the page show the strokes and shapes they showed
    /\ Value(after.heap, Last(after[to])) = Value(before.heap, before.pages[cur])
    /\ Value(after.heap, after.pages[cur]) = Value(before.heap, Last(before[from]))
    /\ Len(after.undoStack) + Len(after.redoStack)
           = Len(before.undoStack) + Len(before.redoStack)

\* C14: whenever undo() has just run on a non-empty undo stack, the undo stack
\* lost exactly its top snapshot, the redo stack gained a snapshot of the
\* page as it was, the current page holds the removed snapshot, no other page
\* and not the current page number changed, and the two stacks together hold
\* as many snapshots as before; the same for redo() with the stacks exchanged.
C14_UndoRedoFrame ==
    /\ lastOp = "undo" => MovesOneSnapshot(prev, State, "undoStack", "redoStack")
    /\ lastOp = "redo" => MovesOneSnapshot(prev, State, "redoStack", "undoStack")

\* a redo has just changed page 2 while page 1 holds strokes or shapes
C14_Witness ==
    /\ lastOp = "redo"
    /\ currentPage = 2
    /\ pages[2] # prev.pages[2]
    /\ PageIds(State, 1) # {}

\* C15: whenever a pointer-up has just been handled, the state is what it was
\* except that the drawing flag is false; whenever a pointer-move has just
\* been handled while no draw was active, the state is what it was.
C15_EndDrawFrame ==
    /\ lastOp = "mouseup" => State = [prev EXCEPT !.isDrawing = FALSE]
    /\ (lastOp = "mousemove/idle" /\ ~prev.isDrawing) => State = prev

\* a pointer-up has just ended a draw while both stacks and the page held
\* something to lose
C15_Witness ==
    /\ lastOp = "mouseup"
    /\ prev.isDrawing
    /\ ~isDrawing
    /\ heap # <<>>
    /\ redoStack # <<>>
    /\ undoStack # <<>>

\* the shape types the render knows
ShapeTools == {"RECTANGLE", "CIRCLE", "ARROW"}

\* every page and snapshot of s
StoredLists(s) ==
    {s.pages[p] : p \in DOMAIN s.pages}
        \cup Range(s.undoStack) \cup Range(s.redoStack)

\* C16: the selected tool is always one of SCRIBBLE, RECTANGLE, CIRCLE, ARROW;
\* whenever a pointer-down has just been handled, the current page gained
\* exactly one new element and nothing else on it changed: a stroke at the
\* end of its strokes when the tool is SCRIBBLE, otherwise a shape at the end
\* of its shapes with zero width and height and the selected tool as type;
\* and every stored shape has a type in RECTANGLE, CIRCLE, ARROW while every
\* stored stroke is a list of points.
C16_ToolsAndKinds ==
    /\ selectedTool \in {"SCRIBBLE", "RECTANGLE", "CIRCLE", "ARROW"}
    /\ lastOp = "mousedown" =>
          LET cur == prev.currentPage
              was == prev.pages[cur]
              now == pages[cur]
          IN  /\ currentPage = cur
              /\ selectedTool = prev.selectedTool
              /\ IF selectedTool = "SCRIBBLE"
                 THEN /\ Len(now.lines) = Len(was.lines) + 1
                      /\ Front(now.lines) = was.lines
                      /\ now.shapes = was.shapes
                      /\ Last(now.lines) \notin DOMAIN prev.heap
                      /\ DOMAIN heap[Last(now.lines)] = {"points", "thickness"}
                      /\ Len(heap[Last(now.lines)].points) = 2
                 ELSE /\ Len(now.shapes) = Len(was.shapes) + 1
                      /\ Front(now.shapes) = was.shapes
                      /\ now.lines = was.lines
                      /\ Last(now.shapes) \notin DOMAIN prev.heap
                      /\ heap[Last(now.shapes)].type = selectedTool
                      /\ heap[Last(now.shapes)].width = 0
                      /\ heap[Last(now.shapes)].height = 0
              /\ PageValue(State, cur).lines
                     = PageValue(prev, cur).lines
                         \o (IF selectedTool = "SCRIBBLE"
                             THEN <<heap[Last(now.lines)]>> ELSE <<>>)
    /\ \A l \in StoredLists(State) :
          /\ \A i \in 1 .. Len(l.shapes) :
                /\ "type" \in DOMAIN heap[l.shapes[i]]
                /\ heap[l.shapes[i]].type \in ShapeTools
          /\ \A i \in 1 .. Len(l.lines) : "points" \in DOMAIN heap[l.lines[i]]

\* a pointer-down with the CIRCLE tool has just added a shape to a page that
\* already holds a stroke
C16_Witness ==
    /\ lastOp = "mousedown"
    /\ selectedTool = "CIRCLE"
    /\ pages[currentPage].lines # <<>>
    /\ pages[currentPage].shapes # <<>>
    /\ heap[Last(pages[currentPage].shapes)].type = "CIRCLE"

\* C17: whenever the drawing flag is true, the current page has an entry in
\* the page map and that entry has a last element of the kind the selected
\* tool designates (a last stroke for SCRIBBLE, a last shape otherwise), so
\* that a pointer-move does not throw.
C17_DrawingHasLastElement ==
    isDrawing =>
        /\ currentPage \in DOMAIN pages
        /\ selectedTool = "SCRIBBLE" => pages[currentPage].lines # <<>>
        /\ selectedTool # "SCRIBBLE" => pages[currentPage].shapes # <<>>
        /\ ~MoveThrows(State)

\* the states up to three undo()/redo() clicks or page changes lead to
SessionRuns(s) ==
    LET one(S) == S \cup {Undone(x) : x \in S} \cup {Redone(x) : x \in S}
                    \cup {Rendered(navigatePage(x, n)) : x \in S, n \in PageNums}
    IN  one(one(one({s})))

\* C18: whenever a file has just been selected, the page map holds only page 1
\* with no strokes and no shapes, the current page is 1, the undo stack holds
\* exactly one empty snapshot, the redo stack is empty, the page count is 0,
\* no stroke or shape of the previous document is held anywhere, and no run
\* of undo()/redo() clicks and page changes puts a stroke or shape on any page.
C18_FileResetsSession ==
    lastOp = "file" =>
        /\ pages = [p \in {1} |-> EmptyPageData]
        /\ currentPage = 1
        /\ undoStack = <<EmptySnapshot>>
        /\ redoStack = <<>>
        /\ numPages = 0
        /\ pdfFile \in Files
        /\ heap = <<>>
        /\ \A r \in SessionRuns(State) :
              \A p \in DOMAIN r.pages : PageIds(r, p) = {}

\* a file has just been selected while page 2 was current, strokes or shapes
\* existed and the stacks held a history
C18_Witness ==
    /\ lastOp = "file"
    /\ prev.currentPage = 2
    /\ prev.heap # <<>>
    /\ Len(prev.undoStack) + Len(prev.redoStack) >= 2
    /\ currentPage = 1

====
